---- MODULE Spec2Model ----
(***************************************************************************)
(* The wizard workflow controller of static/js/scenarios.js (lines 849 to  *)
(* 1487): the step counter, the collected data, the form it reads, the     *)
(* two browser stores, the timers it arms and the analysis round trip.     *)
(* One action per event handler or timer callback; a page load is the      *)
(* DOMContentLoaded handler run on fresh module state.                     *)
(***************************************************************************)
EXTENDS Integers, Sequences, FiniteSets, TLC

\* ------------------------------------------------------------ bounds
\* what the user does in one run of the model: page entries after the first,
\* clicks on persona cards, edits of form inputs and clicks that start an
\* analysis, counted together (clicks on Next and Previous are not counted)
MaxInputs == 2

\* ------------------------------------------------------------ values
\* let totalSteps = 4
totalSteps == 4

\* JS null, as the value of selectedPersona, of a URL parameter or of a
\* storage item that is not there
Null == "null"

\* the persona cards of step 1 (guidanceConfig names the three)
Personas == {"entrepreneur", "consultant", "seller"}

\* a value of wizardData: every value is a sequence of strings so that any two
\* compare. Absent: the object has no such key; Undef: the key holds undefined.
Absent == <<>>
Undef == <<"undefined">>
Str(s) == <<"str", s>>
List(seq) == <<"list">> \o seq

\* a property a scenario record does not have
Missing == "<missing>"

\* scenario records the picker can hand over (analyzeScenario stores
\* scenarios[index] as JSON): a complete one, one without name, one without
\* industry
Scenarios ==
    { [name |-> "TechStart Pro", industry |-> "B2B SaaS", ai_system |-> "Sales lead scoring with anonymized data"],
      [name |-> Missing, industry |-> "B2B SaaS", ai_system |-> "Sales lead scoring with anonymized data"],
      [name |-> "TechStart Pro", industry |-> Missing, ai_system |-> "Sales lead scoring with anonymized data"] }

\* the scenario object as a wizardData value, and back
Obj(sc) == <<"obj", sc.name, sc.industry, sc.ai_system>>
ObjScenario(v) == [name |-> v[2], industry |-> v[3], ai_system |-> v[4]]

\* String.prototype.toLowerCase on the strings of the model
ToLowerCase(s) == IF s = "B2B SaaS" THEN "b2b saas" ELSE s

\* String.prototype.trim on the strings of the model
Trim(s) == IF s = " " THEN "" ELSE s

\* the keys wizardData can hold
Keys == {"persona", "company_name", "industry", "ai_description", "data_types", "demo_scenario"}

EmptyData == [k \in Keys |-> Absent]

\* Object.keys(d)
ObjectKeys(d) == {k \in Keys : d[k] # Absent}

\* JS truthiness of d[k]
Truthy(v) == v # Absent /\ v # Undef /\ v # Str("")

\* the inputs of the two forms: #step2 .wizard-form holds company_name and
\* industry, #step3 .wizard-form holds ai_description and a checkbox group;
\* steps 1 and 4 hold no form
TextFields(step) ==
    CASE step = 2 -> {"company_name", "industry"}
      [] step = 3 -> {"ai_description"}
      [] OTHER -> {}
BoxFields(step) == IF step = 3 THEN {"data_types"} ELSE {}
HasForm(step) == step \in {2, 3}
AllTextFields == {"company_name", "industry", "ai_description"}

\* the checkboxes of the group, in document order
BoxOrder == <<"pii", "biometric">>
BoxValues == {BoxOrder[i] : i \in 1..Len(BoxOrder)}

\* what a user puts into a text input: company_name is a text box (it can be
\* left blank, or hold only a space), industry a choice, ai_description a text
UserText(fld) ==
    CASE fld = "company_name" -> {"", " ", "Acme"}
      [] fld = "industry" -> {"", "retail"}
      [] OTHER -> {"", "chatbot"}

EmptyForm == [text |-> [f \in AllTextFields |-> ""], boxes |-> {}]

\* ------------------------------------------------------------ storage
\* an item of localStorage holding JSON text: kind "null" (no item), "json"
\* (the text of obj) or "bad" (text JSON.parse rejects)
NoItem == [kind |-> "null", obj |-> EmptyData]
BadItem == [kind |-> "bad", obj |-> EmptyData]

\* JSON.stringify(wizardData): a key holding undefined is left out
JSONStringify(d) == [kind |-> "json", obj |-> [k \in Keys |-> IF d[k] = Undef THEN Absent ELSE d[k]]]

\* JSON.parse(item) of a well-formed item
JSONParse(item) == item.obj

\* currentStep.toString()
StepToString(n) == <<"1", "2", "3", "4", "5">>[n]

\* parseInt(s); NaN is 0 here: both fail step > 1
ParseInt(s) ==
    CASE s = "1" -> 1 [] s = "2" -> 2 [] s = "3" -> 3 [] s = "4" -> 4
      [] s = "5" -> 5 [] s = "7" -> 7 [] OTHER -> 0

\* ------------------------------------------------------------ state
VARIABLES
    url,             \* window.location.search: [persona, demo]
    currentStep,     \* let currentStep
    wizardData,      \* let wizardData
    selectedPersona, \* let selectedPersona
    form,            \* the values of the form inputs in the document
    localData,       \* localStorage nexusai_wizard_data
    localStep,       \* localStorage nexusai_wizard_step
    sessionScenario, \* sessionStorage selectedScenario
    sessionPersona,  \* sessionStorage selectedPersona
    urlTimer,        \* the 500 ms timer of loadURLParameters is pending
    resumeTimer,     \* the step the 1000 ms timer of loadSavedWizardData will set, 0: none
    advanceTimer,    \* the 1000 ms timer of prefillWizardFromScenario is pending
    runs,            \* the runAnalysis invocations that have not returned
    view,            \* what #step4 shows: "idle", "loading", "results", "error"
    inputs,          \* the user inputs so far, capped by MaxInputs
    lastOp,          \* the handler that ran last
    stepBefore,      \* after a click on Next or Previous: the step it was clicked on; else 0
    dataBefore,      \* after a click on Previous: wizardData when it was clicked; else {}
    tripFrom,        \* after a click on Next right after one on Previous: the step Previous was clicked on; else 0
    failed,          \* right after a request has failed, and after a runAnalysis that follows at once: <<the invocation it belonged to>>; else <<>>
    autoNexts,       \* the nextStep() calls the auto-advance timer has made on this page
    dropped          \* right after startNewAssessment: the deferred tasks that were pending on the page it reloaded; else {}

vars == <<url, currentStep, wizardData, selectedPersona, form, localData, localStep,
          sessionScenario, sessionPersona, urlTimer, resumeTimer, advanceTimer,
          runs, view, inputs, lastOp, stepBefore, dataBefore, tripFrom, failed, autoNexts, dropped>>

\* the entry parameters: /wizard, /wizard?persona=<id> of the start button
\* (an id of a card, or anything else typed into the address), and the
\* /wizard?demo=true&persona=<id> of the scenario picker
URLs ==
    { [persona |-> Null, demo |-> Null],
      [persona |-> "entrepreneur", demo |-> Null],
      [persona |-> "hacker", demo |-> Null],
      [persona |-> "entrepreneur", demo |-> "true"] }

\* the persona cards the user clicks, and the persona tab of the picker
ClickedPersonas == {"consultant"}
PickerPersonas == {"entrepreneur"}

\* sessionStorage selectedScenario: no item, or the JSON text of a scenario
NoScenario == <<>>

\* what an earlier visit has saved while on step 3: the persona of the card,
\* the inputs the user filled and the box the user checked
EarlierData ==
    [EmptyData EXCEPT !["persona"] = Str("consultant"),
                      !["company_name"] = Str("Acme"),
                      !["industry"] = Str("retail"),
                      !["ai_description"] = Str("chatbot"),
                      !["data_types"] = List(<<"pii">>)]

\* the localStorage contents a first visit can find: nothing, the record of an
\* earlier visit, or a record that is damaged (unparseable data, data item
\* gone, step out of range)
InitStores ==
    { <<NoItem, Null>>, <<JSONStringify(EarlierData), "3">>, <<BadItem, "3">>, <<NoItem, "7">> }

\* ------------------------------------------------------------ handlers' functions
\* the [required] inputs of a step's element: the text inputs of its form
RequiredFields(step) == TextFields(step)

\* the [required] checkboxes of a step's element: the boxes of its group
RequiredBoxes(step) == IF BoxFields(step) # {} THEN BoxValues ELSE {}

\* field.value of checkbox b: its value attribute, checked or not
ValueAttr(b) == b

\* validateCurrentStep() without the trim(): an input holding only spaces passes
validateNoTrim(step, persona, f) ==
    IF step = 1
    THEN persona # Null
    ELSE /\ \A fld \in RequiredFields(step) : f.text[fld] # ""
         /\ \A b \in RequiredBoxes(step) : ValueAttr(b) # ""

\* validateCurrentStep(): step 1 asks for a persona, the other steps for every
\* required input to be non-blank after trim(); of a checkbox it reads the
\* value attribute, not whether the box is checked
validateCurrentStep(step, persona, f) ==
    IF step = 1
    THEN persona # Null
    ELSE /\ \A fld \in RequiredFields(step) : Trim(f.text[fld]) # ""
         /\ \A b \in RequiredBoxes(step) : Trim(ValueAttr(b)) # ""

\* the checked boxes of the group, in document order
CheckedValues(f) == SelectSeq(BoxOrder, LAMBDA b : b \in f.boxes)

\* collectCurrentStepData() that starts from an empty object instead of
\* merging into wizardData
collectReplaces(d, step, f) ==
    IF ~HasForm(step)
    THEN d
    ELSE [k \in Keys |->
            IF k \in TextFields(step) THEN Str(f.text[k])
            ELSE IF k \in BoxFields(step) /\ f.boxes # {} THEN List(CheckedValues(f))
            ELSE Absent]

\* collectCurrentStepData() that writes a text input only into a key data does
\* not hold yet
collectFirstWriteWins(d, step, f) ==
    IF ~HasForm(step)
    THEN d
    ELSE [k \in Keys |->
            IF k \in TextFields(step) /\ d[k] = Absent THEN Str(f.text[k])
            ELSE IF k \in BoxFields(step) /\ f.boxes # {} THEN List(CheckedValues(f))
            ELSE d[k]]

\* collectCurrentStepData() that hands back an empty object on a step with
\* no form
collectNoFormResets(d, step, f) ==
    IF ~HasForm(step)
    THEN EmptyData
    ELSE [k \in Keys |->
            IF k \in TextFields(step) THEN Str(f.text[k])
            ELSE IF k \in BoxFields(step) /\ f.boxes # {} THEN List(CheckedValues(f))
            ELSE d[k]]

\* collectCurrentStepData(), its effect on wizardData: every text input of the
\* step's form is an entry of FormData and is written; a checkbox group is
\* written only when a box is checked; a step with no form returns early.
\* (The ")" after the for loop, line 1155, is read as not being there.)
collectCurrentStepData(d, step, f) ==
    IF ~HasForm(step)
    THEN d
    ELSE [k \in Keys |->
            IF k \in TextFields(step) THEN Str(f.text[k])
            ELSE IF k \in BoxFields(step) /\ f.boxes # {} THEN List(CheckedValues(f))
            ELSE d[k]]

\* what assigning v to input.value leaves in the input: undefined becomes
\* the string "undefined"
InputValue(v) == IF v = Missing THEN "undefined" ELSE v

\* autoFillDemoData(), its effect on the form: fills the empty inputs of step 2
\* or 3 from wizardData.demo_scenario; scenario.industry.toLowerCase() throws
\* on a record without industry, after company_name was filled
autoFillDemoData(f, step, d) ==
    IF ~Truthy(d["demo_scenario"])
    THEN f
    ELSE LET sc == ObjScenario(d["demo_scenario"])
             fill(g, fld, v) == IF g.text[fld] = "" THEN [g EXCEPT !.text[fld] = v] ELSE g
         IN CASE step = 2 ->
                   LET g == fill(f, "company_name", InputValue(sc.name))
                   IN IF g.text["industry"] = "" /\ sc.industry # Missing
                      THEN [g EXCEPT !.text["industry"] = ToLowerCase(sc.industry)]
                      ELSE g
              [] step = 3 -> fill(f, "ai_description", InputValue(sc.ai_system))
              [] OTHER -> f

\* a scenario property as a wizardData value
PropValue(v) == IF v = Missing THEN Undef ELSE Str(v)

\* prefillWizardFromScenario throws (TypeError) before it assigns anything
\* when the record has no industry
PrefillThrows(sc) == sc.industry = Missing

\* prefillWizardFromScenario(scenario), its effect on wizardData
prefillWizardFromScenario(d, sc) ==
    [k \in Keys |->
        CASE k = "company_name" -> PropValue(sc.name)
          [] k = "industry" -> Str(ToLowerCase(sc.industry))
          [] k = "ai_description" -> PropValue(sc.ai_system)
          [] k = "demo_scenario" -> Obj(sc)
          [] OTHER -> d[k]]

\* loadDemoScenario(), its effect on wizardData for the sessionStorage item
\* ss: nothing without an item, nothing when prefillWizardFromScenario throws
\* (the exception is caught and logged), the prefill otherwise
loadDemoScenario(d, ss) ==
    IF ss = NoScenario \/ PrefillThrows(ObjScenario(ss))
    THEN d
    ELSE prefillWizardFromScenario(d, ObjScenario(ss))

\* window.location.search.includes('demo')
SearchIncludesDemo(u) == u.demo # Null

\* loadSavedWizardData(), the data it leaves in the fresh wizardData: the
\* parsed item, or {} when there is none or JSON.parse throws
LoadedData(ld) == IF ld.kind = "json" THEN JSONParse(ld) ELSE EmptyData

\* loadSavedWizardData(), the persona it restores
LoadedPersona(ld) ==
    LET v == LoadedData(ld)["persona"] IN IF Truthy(v) THEN v[2] ELSE Null

\* loadSavedWizardData() with step < totalSteps for step <= totalSteps
ResumeStepBelowTotal(ls, u) ==
    IF ls # Null /\ ~SearchIncludesDemo(u) /\ ParseInt(ls) > 1 /\ ParseInt(ls) < totalSteps
    THEN ParseInt(ls)
    ELSE 0

\* loadSavedWizardData(), the step its timer will jump to (0: no timer)
ResumeStep(ls, u) ==
    IF ls # Null /\ ~SearchIncludesDemo(u) /\ ParseInt(ls) > 1 /\ ParseInt(ls) <= totalSteps
    THEN ParseInt(ls)
    ELSE 0

\* the request body with demo_type set whether or not use_demo is
AnalysisDataTypeAlways(d, persona) ==
    [data |-> d,
     use_demo |-> Truthy(d["demo_scenario"]),
     persona |-> persona,
     demo_type |-> persona]

\* the request body runAnalysis builds: {...wizardData, use_demo, persona}
\* and demo_type when use_demo
AnalysisData(d, persona) ==
    [data |-> d,
     use_demo |-> Truthy(d["demo_scenario"]),
     persona |-> persona,
     demo_type |-> IF Truthy(d["demo_scenario"]) THEN persona ELSE Missing]

\* a sequence without its i-th element
RemoveAt(seq, i) == SubSeq(seq, 1, i - 1) \o SubSeq(seq, i + 1, Len(seq))

\* ------------------------------------------------------------ page load
\* The DOMContentLoaded handler on fresh module state: initializeWizard()
\* (loadSavedWizardData) and then loadURLParameters(), for entry parameters u
\* and the localStorage items ld, ls. A page load drops the timers and the
\* pending runAnalysis invocations of the page before.
DOMContentLoaded(u, ld, ls) ==
    /\ url' = u
    /\ currentStep' = 1
    /\ wizardData' = IF u.persona # Null
                     THEN [LoadedData(ld) EXCEPT !["persona"] = Str(u.persona)]
                     ELSE LoadedData(ld)
    /\ selectedPersona' = IF u.persona # Null THEN u.persona ELSE LoadedPersona(ld)
    /\ form' = EmptyForm
    /\ urlTimer' = (u.persona # Null)
    /\ resumeTimer' = ResumeStep(ls, u)
    /\ advanceTimer' = FALSE
    /\ runs' = <<>>
    /\ view' = "idle"
    /\ stepBefore' = 0
    /\ dataBefore' = EmptyData
    /\ tripFrom' = 0
    /\ failed' = <<>>
    /\ autoNexts' = 0

Init ==
    \E u \in URLs, st \in InitStores :
        /\ url = u
        /\ currentStep = 1
        /\ wizardData = IF u.persona # Null
                        THEN [LoadedData(st[1]) EXCEPT !["persona"] = Str(u.persona)]
                        ELSE LoadedData(st[1])
        /\ selectedPersona = IF u.persona # Null THEN u.persona ELSE LoadedPersona(st[1])
        /\ form = EmptyForm
        /\ localData = st[1]
        /\ localStep = st[2]
        /\ sessionScenario = NoScenario
        /\ sessionPersona = Null
        /\ urlTimer = (u.persona # Null)
        /\ resumeTimer = ResumeStep(st[2], u)
        /\ advanceTimer = FALSE
        /\ runs = <<>>
        /\ view = "idle"
        /\ inputs = 0
        /\ lastOp = "load"
        /\ stepBefore = 0
        /\ dataBefore = EmptyData
        /\ tripFrom = 0
        /\ failed = <<>>
        /\ dropped = {}
        /\ autoNexts = 0

\* the user opens or reloads the wizard page with entry parameters u
Navigate(u) ==
    /\ inputs < MaxInputs
    /\ inputs' = inputs + 1
    /\ DOMContentLoaded(u, localData, localStep)
    /\ lastOp' = "load"
    /\ dropped' = {}
    /\ UNCHANGED <<localData, localStep, sessionScenario, sessionPersona>>

\* analyzeScenario(index) of the scenario picker: stores the scenario and the
\* persona in sessionStorage and opens the wizard with demo=true
analyzeScenario(sc, p) ==
    /\ inputs < MaxInputs
    /\ inputs' = inputs + 1
    /\ sessionScenario' = Obj(sc)
    /\ sessionPersona' = p
    /\ DOMContentLoaded([persona |-> p, demo |-> "true"], localData, localStep)
    /\ lastOp' = "load"
    /\ dropped' = {}
    /\ UNCHANGED <<localData, localStep>>

\* clearSavedWizardData(), as an effect on the four storage items
clearSavedWizardData ==
    /\ localData' = NoItem
    /\ localStep' = Null
    /\ sessionScenario' = NoScenario
    /\ sessionPersona' = Null

\* the deferred tasks pending on the page: the one-shot timers and the
\* runAnalysis invocations that have not returned
PendingTasks ==
    {t \in {"urlTimer", "resume", "autoAdvance", "analysis"} :
        \/ t = "urlTimer" /\ urlTimer
        \/ t = "resume" /\ resumeTimer > 0
        \/ t = "autoAdvance" /\ advanceTimer
        \/ t = "analysis" /\ runs # <<>>}

\* startNewAssessment() that resets the module state in place, without the
\* reload: the timers and invocations of the page stay pending
startNewAssessmentInPlace ==
    /\ inputs < MaxInputs
    /\ inputs' = inputs + 1
    /\ clearSavedWizardData
    /\ currentStep' = 1
    /\ wizardData' = IF url.persona # Null
                     THEN [EmptyData EXCEPT !["persona"] = Str(url.persona)]
                     ELSE EmptyData
    /\ selectedPersona' = url.persona
    /\ form' = EmptyForm
    /\ view' = "idle"
    /\ stepBefore' = 0
    /\ dataBefore' = EmptyData
    /\ tripFrom' = 0
    /\ failed' = <<>>
    /\ autoNexts' = 0
    /\ lastOp' = "restart"
    /\ dropped' = PendingTasks
    /\ UNCHANGED <<url, urlTimer, resumeTimer, advanceTimer, runs>>

\* startNewAssessment(): clearSavedWizardData() and window.location.reload()
startNewAssessment ==
    /\ inputs < MaxInputs
    /\ inputs' = inputs + 1
    /\ clearSavedWizardData
    /\ DOMContentLoaded(url, NoItem, Null)
    /\ lastOp' = "restart"
    /\ dropped' = PendingTasks

\* ------------------------------------------------------------ user input
\* the pending runAnalysis invocations, each marked as having seen the user
\* change an input since it built its request body
Edited(rs) == [i \in 1..Len(rs) |-> [rs[i] EXCEPT !.edited = TRUE]]

\* a click on a persona card: selectPersona(persona)
selectPersona(p) ==
    /\ currentStep = 1
    /\ inputs < MaxInputs
    /\ inputs' = inputs + 1
    /\ selectedPersona' = p
    /\ wizardData' = [wizardData EXCEPT !["persona"] = Str(p)]
    /\ lastOp' = "select"
    /\ stepBefore' = 0
    /\ dataBefore' = EmptyData
    /\ tripFrom' = 0
    /\ failed' = <<>>
    /\ dropped' = {}
    /\ UNCHANGED <<autoNexts, url, currentStep, form, localData, localStep, sessionScenario,
                   sessionPersona, urlTimer, resumeTimer, advanceTimer, runs, view>>

\* the user types v into text input fld of the step on display
EditText(fld, v) ==
    /\ fld \in TextFields(currentStep)
    /\ v \in UserText(fld)
    /\ form.text[fld] # v
    /\ inputs < MaxInputs
    /\ inputs' = inputs + 1
    /\ form' = [form EXCEPT !.text[fld] = v]
    /\ runs' = Edited(runs)
    /\ lastOp' = "edit"
    /\ stepBefore' = 0
    /\ dataBefore' = EmptyData
    /\ tripFrom' = 0
    /\ failed' = <<>>
    /\ dropped' = {}
    /\ UNCHANGED <<autoNexts, url, currentStep, wizardData, selectedPersona, localData, localStep,
                   sessionScenario, sessionPersona, urlTimer, resumeTimer, advanceTimer,
                   view>>

\* the user toggles checkbox b of the group of step 3
ToggleBox(b) ==
    /\ BoxFields(currentStep) # {}
    /\ inputs < MaxInputs
    /\ inputs' = inputs + 1
    /\ form' = [form EXCEPT !.boxes = IF b \in @ THEN @ \ {b} ELSE @ \cup {b}]
    /\ runs' = Edited(runs)
    /\ lastOp' = "edit"
    /\ stepBefore' = 0
    /\ dataBefore' = EmptyData
    /\ tripFrom' = 0
    /\ failed' = <<>>
    /\ dropped' = {}
    /\ UNCHANGED <<autoNexts, url, currentStep, wizardData, selectedPersona, localData, localStep,
                   sessionScenario, sessionPersona, urlTimer, resumeTimer, advanceTimer,
                   view>>

\* ------------------------------------------------------------ navigation
\* saveWizardData()
saveWizardData(d, step) ==
    /\ localData' = JSONStringify(d)
    /\ localStep' = StepToString(step)

\* collectCurrentStepData() with the saveWizardData() that ends it; a step
\* without a form returns before the save
CollectAndSave ==
    /\ wizardData' = collectCurrentStepData(wizardData, currentStep, form)
    /\ IF HasForm(currentStep)
       THEN saveWizardData(wizardData', currentStep)
       ELSE UNCHANGED <<localData, localStep>>

\* nextStep() without the currentStep < totalSteps test
nextStepNoCap ==
    IF ~validateCurrentStep(currentStep, selectedPersona, form)
    THEN UNCHANGED <<currentStep, wizardData, form, localData, localStep>>
    ELSE /\ CollectAndSave
         /\ currentStep' = currentStep + 1
         /\ form' = autoFillDemoData(form, currentStep + 1, wizardData')

\* nextStep(): validate, collect (and save), step forward below totalSteps,
\* auto-fill the new step from the demo scenario
nextStep ==
    IF ~validateCurrentStep(currentStep, selectedPersona, form)
    THEN UNCHANGED <<currentStep, wizardData, form, localData, localStep>>
    ELSE /\ CollectAndSave
         /\ IF currentStep < totalSteps
            THEN /\ currentStep' = currentStep + 1
                 /\ form' = autoFillDemoData(form, currentStep + 1, wizardData')
            ELSE UNCHANGED <<currentStep, form>>

\* previousStep() that drops what the step it leaves had collected
previousStepDiscards ==
    /\ currentStep' = IF currentStep > 1 THEN currentStep - 1 ELSE currentStep
    /\ wizardData' = [k \in Keys |-> IF k \in TextFields(currentStep) THEN Absent ELSE wizardData[k]]
    /\ UNCHANGED <<form, localData, localStep>>

\* previousStep(): step back above 1
previousStep ==
    /\ currentStep' = IF currentStep > 1 THEN currentStep - 1 ELSE currentStep
    /\ UNCHANGED <<wizardData, form, localData, localStep>>

\* a click on nextBtn
ClickNext ==
    /\ nextStep
    /\ lastOp' = "next"
    /\ stepBefore' = currentStep
    /\ dataBefore' = EmptyData
    /\ tripFrom' = (IF lastOp = "previous" THEN stepBefore ELSE 0)
    /\ failed' = <<>>
    /\ dropped' = {}
    /\ UNCHANGED <<autoNexts, url, selectedPersona, sessionScenario, sessionPersona, urlTimer,
                   resumeTimer, advanceTimer, runs, view, inputs>>

\* a click on prevBtn
ClickPrevious ==
    /\ previousStep
    /\ lastOp' = "previous"
    /\ stepBefore' = currentStep
    /\ dataBefore' = wizardData
    /\ tripFrom' = 0
    /\ failed' = <<>>
    /\ dropped' = {}
    /\ UNCHANGED <<autoNexts, url, selectedPersona, sessionScenario, sessionPersona, urlTimer,
                   resumeTimer, advanceTimer, runs, view, inputs>>

\* ------------------------------------------------------------ timers
\* The delays order the one-shot timers of a page: the 500 ms timer of
\* loadURLParameters fires before the 1000 ms timer of loadSavedWizardData
\* armed by the same handler, and all of them before the first 30 s tick.

\* the timer of loadURLParameters: selectPersona(persona) and, for a demo
\* entry, loadDemoScenario(): a stored scenario that parses is handed to
\* prefillWizardFromScenario, which arms the auto-advance timer; an exception
\* is caught and logged
UrlTimerFire ==
    /\ urlTimer
    /\ urlTimer' = FALSE
    /\ selectedPersona' = url.persona
    /\ LET d == [wizardData EXCEPT !["persona"] = Str(url.persona)]
           prefills == /\ url.demo # Null
                       /\ sessionScenario # NoScenario
                       /\ ~PrefillThrows(ObjScenario(sessionScenario))
       IN /\ wizardData' = IF url.demo # Null THEN loadDemoScenario(d, sessionScenario) ELSE d
          /\ advanceTimer' = prefills
    /\ lastOp' = "urlTimer"
    /\ stepBefore' = 0
    /\ dataBefore' = EmptyData
    /\ tripFrom' = 0
    /\ failed' = <<>>
    /\ dropped' = {}
    /\ UNCHANGED <<autoNexts, url, currentStep, form, localData, localStep, sessionScenario,
                   sessionPersona, resumeTimer, runs, view, inputs>>

\* the timer of loadSavedWizardData: currentStep = step
ResumeTimerFire ==
    /\ resumeTimer > 0
    /\ ~urlTimer
    /\ currentStep' = resumeTimer
    /\ resumeTimer' = 0
    /\ lastOp' = "resume"
    /\ stepBefore' = 0
    /\ dataBefore' = EmptyData
    /\ tripFrom' = 0
    /\ failed' = <<>>
    /\ dropped' = {}
    /\ UNCHANGED <<autoNexts, url, wizardData, selectedPersona, form, localData, localStep,
                   sessionScenario, sessionPersona, urlTimer, advanceTimer, runs, view, inputs>>

\* the timer of prefillWizardFromScenario without the currentStep === 1 test
AdvanceTimerFireAlways ==
    /\ advanceTimer
    /\ advanceTimer' = FALSE
    /\ nextStep /\ autoNexts' = autoNexts + 1
    /\ lastOp' = "autoAdvance"
    /\ stepBefore' = 0
    /\ dataBefore' = EmptyData
    /\ tripFrom' = 0
    /\ failed' = <<>>
    /\ dropped' = {}
    /\ UNCHANGED <<url, selectedPersona, sessionScenario, sessionPersona, urlTimer,
                   resumeTimer, runs, view, inputs>>

\* the timer of prefillWizardFromScenario as an interval: it stays armed
AdvanceTimerFireRepeats ==
    /\ advanceTimer
    /\ advanceTimer' = TRUE
    /\ IF currentStep = 1
       THEN nextStep /\ autoNexts' = autoNexts + 1
       ELSE UNCHANGED <<currentStep, wizardData, form, localData, localStep, autoNexts>>
    /\ lastOp' = "autoAdvance"
    /\ stepBefore' = 0
    /\ dataBefore' = EmptyData
    /\ tripFrom' = 0
    /\ failed' = <<>>
    /\ dropped' = {}
    /\ UNCHANGED <<url, selectedPersona, sessionScenario, sessionPersona, urlTimer,
                   resumeTimer, runs, view, inputs>>

\* the timer of prefillWizardFromScenario: nextStep() if currentStep === 1
AdvanceTimerFire ==
    /\ advanceTimer
    /\ advanceTimer' = FALSE
    /\ IF currentStep = 1
       THEN nextStep /\ autoNexts' = autoNexts + 1
       ELSE UNCHANGED <<currentStep, wizardData, form, localData, localStep, autoNexts>>
    /\ lastOp' = "autoAdvance"
    /\ stepBefore' = 0
    /\ dataBefore' = EmptyData
    /\ tripFrom' = 0
    /\ failed' = <<>>
    /\ dropped' = {}
    /\ UNCHANGED <<url, selectedPersona, sessionScenario, sessionPersona, urlTimer,
                   resumeTimer, runs, view, inputs>>

\* a tick of the 30 s interval: saveWizardData() if wizardData has a key
AutoSave ==
    /\ ~urlTimer /\ resumeTimer = 0 /\ ~advanceTimer
    /\ IF ObjectKeys(wizardData) # {}
       THEN saveWizardData(wizardData, currentStep)
       ELSE UNCHANGED <<localData, localStep>>
    /\ lastOp' = "autoSave"
    /\ stepBefore' = 0
    /\ dataBefore' = EmptyData
    /\ tripFrom' = 0
    /\ failed' = <<>>
    /\ dropped' = {}
    /\ UNCHANGED <<autoNexts, url, currentStep, wizardData, selectedPersona, form, sessionScenario,
                   sessionPersona, urlTimer, resumeTimer, advanceTimer, runs, view, inputs>>

\* ------------------------------------------------------------ analysis
\* updateWizardDisplay() shows analyzeBtn on step 3 only
AnalyzeShown == currentStep = 3

\* showAnalysisError() puts the Try Again button into the results pane of
\* step 4
RetryShown == currentStep = 4 /\ view = "error"

\* a click on analyzeBtn or on Try Again.
\* runAnalysis() up to its first await: collect (and save), currentStep = 4,
\* show the loading pane, build the request body; the invocation then waits
\* for simulateAnalysisSteps(). The invocation is recorded with the step it
\* was started on.
runAnalysis ==
    /\ AnalyzeShown \/ RetryShown
    /\ inputs < MaxInputs
    /\ inputs' = inputs + 1
    /\ CollectAndSave
    /\ currentStep' = 4
    /\ view' = "loading"
    /\ runs' = Append(runs, [pc |-> "steps",
                             body |-> AnalysisData(wizardData', selectedPersona),
                             from |-> currentStep,
                             edited |-> FALSE])
    /\ lastOp' = "submit"
    /\ stepBefore' = 0
    /\ dataBefore' = EmptyData
    /\ tripFrom' = 0
    /\ failed' = (IF lastOp = "failure" THEN failed ELSE <<>>)
    /\ dropped' = {}
    /\ UNCHANGED <<autoNexts, url, selectedPersona, form, sessionScenario, sessionPersona, urlTimer,
                   resumeTimer, advanceTimer>>

\* simulateAnalysisSteps() of invocation i has finished: makeAPICall sends
\* the request
SendRequest(i) ==
    /\ runs[i].pc = "steps"
    /\ runs' = [runs EXCEPT ![i].pc = "fetch"]
    /\ lastOp' = "send"
    /\ stepBefore' = 0
    /\ dataBefore' = EmptyData
    /\ tripFrom' = 0
    /\ failed' = <<>>
    /\ dropped' = {}
    /\ UNCHANGED <<autoNexts, url, currentStep, wizardData, selectedPersona, form, localData,
                   localStep, sessionScenario, sessionPersona, urlTimer, resumeTimer,
                   advanceTimer, view, inputs>>

\* the response of invocation i is a success: displayWizardResults(result)
\* shows the results and ends with clearSavedWizardData()
AnalysisSucceeds(i) ==
    /\ runs[i].pc = "fetch"
    /\ runs' = RemoveAt(runs, i)
    /\ view' = "results"
    /\ clearSavedWizardData
    /\ lastOp' = "success"
    /\ stepBefore' = 0
    /\ dataBefore' = EmptyData
    /\ tripFrom' = 0
    /\ failed' = <<>>
    /\ dropped' = {}
    /\ UNCHANGED <<autoNexts, url, currentStep, wizardData, selectedPersona, form, urlTimer,
                   resumeTimer, advanceTimer, inputs>>

\* the request of invocation i fails (fetch rejects or the status is not ok):
\* showAnalysisError(error)
AnalysisFails(i) ==
    /\ runs[i].pc = "fetch"
    /\ runs' = RemoveAt(runs, i)
    /\ view' = "error"
    /\ lastOp' = "failure"
    /\ stepBefore' = 0
    /\ dataBefore' = EmptyData
    /\ tripFrom' = 0
    /\ failed' = <<runs[i]>>
    /\ dropped' = {}
    /\ UNCHANGED <<autoNexts, url, currentStep, wizardData, selectedPersona, form, localData,
                   localStep, sessionScenario, sessionPersona, urlTimer, resumeTimer,
                   advanceTimer, inputs>>

\* ------------------------------------------------------------ specification
Next ==
    \/ \E u \in URLs : Navigate(u)
    \/ \E sc \in Scenarios, p \in PickerPersonas : analyzeScenario(sc, p)
    \/ startNewAssessment
    \/ \E p \in ClickedPersonas : selectPersona(p)
    \/ \E fld \in AllTextFields, v \in {"", " ", "Acme", "retail", "chatbot"} : EditText(fld, v)
    \/ \E b \in BoxValues : ToggleBox(b)
    \/ ClickNext
    \/ ClickPrevious
    \/ UrlTimerFire
    \/ ResumeTimerFire
    \/ AdvanceTimerFire
    \/ AutoSave
    \/ runAnalysis
    \/ \E i \in 1..Len(runs) : SendRequest(i)
    \/ \E i \in 1..Len(runs) : AnalysisSucceeds(i)
    \/ \E i \in 1..Len(runs) : AnalysisFails(i)

Spec == Init /\ [][Next]_vars

\* ------------------------------------------------------------ claims

\* C1: in every reachable state 1 <= currentStep <= totalSteps, and
\* totalSteps is 4.
C1_StepInRange == 1 <= currentStep /\ currentStep <= totalSteps /\ totalSteps = 4

\* C1 witness: Next was clicked on the last step and the wizard is still on it.
C1_Witness == lastOp = "next" /\ stepBefore = totalSteps /\ currentStep = totalSteps

\* C2 (as claimed): whenever currentStep > 1 a persona is selected.
C2_PersonaBeforeStep2 == currentStep > 1 => selectedPersona # Null

\* C3 (as claimed): a step that brings currentStep to 4 is a runAnalysis.
C3_Step4OnlyBySubmit ==
    [][(currentStep # 4 /\ currentStep' = 4) => lastOp' = "submit"]_vars

\* C4 (as claimed): once currentStep is 4, only a restart changes it (leaving
\* the page for a new one ends the session and is not an operation on it).
C4_Step4Terminal ==
    [][(currentStep = 4 /\ currentStep' # 4) => lastOp' \in {"restart", "load"}]_vars

\* step fails validation as the claims word it: no persona on step 1, or a
\* required input of step 2 or 3 blank (empty or only spaces)
BlockedAt(step) ==
    \/ step = 1 /\ selectedPersona = Null
    \/ step \in {2, 3} /\ \E fld \in RequiredFields(step) : form.text[fld] \in {"", " "}

Blocked == BlockedAt(currentStep)

\* C5: a click on Next while the step fails validation changes neither
\* currentStep nor data nor the durable store; a click on Next on step 1, 2 or
\* 3 while it passes advances currentStep by exactly one.
C5_BlockedNextIsNoOp ==
    [][lastOp' = "next" =>
          IF Blocked
          THEN UNCHANGED <<currentStep, wizardData, localData, localStep>>
          ELSE currentStep < totalSteps => currentStep' = currentStep + 1]_vars

\* C5 witness: Next was clicked on step 2 with company_name holding only a
\* space, and the wizard is still on step 2.
C5_Witness ==
    /\ lastOp = "next" /\ stepBefore = 2 /\ currentStep = 2
    /\ form.text["company_name"] = " " /\ form.text["industry"] # ""

\* C6: a click on Previous decrements currentStep with floor 1, whatever the
\* form holds, and leaves data as it is; no step within a page removes a key
\* from data.
C6_PreviousKeepsData ==
    [][/\ lastOp' = "previous" =>
            /\ currentStep' = (IF currentStep > 1 THEN currentStep - 1 ELSE 1)
            /\ wizardData' = wizardData
       /\ lastOp' \notin {"load", "restart"} =>
            ObjectKeys(wizardData) \subseteq ObjectKeys(wizardData')]_vars

\* C6 witness: Previous was clicked on step 3 and the data collected on step
\* 3 is still there on step 2.
C6_Witness ==
    /\ lastOp = "previous" /\ stepBefore = 3 /\ currentStep = 2
    /\ wizardData["ai_description"] = Str("chatbot")

\* the keys of data that belong to a step: persona to step 1, the inputs of
\* its form to step 2 and 3
StepKeys(step) ==
    IF step = 1 THEN {"persona"} ELSE TextFields(step) \cup BoxFields(step)

C8_SavedAfterTransition ==
    [][(lastOp' \in {"next", "previous"} /\ currentStep' # currentStep) =>
          /\ localStep' = StepToString(currentStep')
          /\ localData' = JSONStringify(wizardData')]_vars

\* two data mappings give every field the same value (a key that holds
\* undefined gives its field no value)
SameData(a, b) ==
    \A k \in Keys : (IF a[k] = Undef THEN Absent ELSE a[k]) = (IF b[k] = Undef THEN Absent ELSE b[k])

\* C9: when the durable store holds what saveWizardData() writes for the
\* session (currentStep, data) and the wizard is then entered afresh without
\* demo, the load gives back the data (but for a persona the entry parameters
\* name) and the step: as currentStep at once for step 1, as the target of the
\* resume timer for steps 2..4, which that timer then makes currentStep.
C9_SaveLoadRoundTrip ==
    [][/\ (/\ lastOp' = "load"
           /\ url'.demo = Null
           /\ localData = JSONStringify(wizardData)
           /\ localStep = StepToString(currentStep)) =>
            /\ \A k \in Keys :
                  \/ k = "persona" /\ url'.persona # Null
                  \/ SameData([x \in Keys |-> wizardData'[k]], [x \in Keys |-> wizardData[k]])
            /\ currentStep' = 1
            /\ resumeTimer' = (IF currentStep > 1 THEN currentStep ELSE 0)
       /\ lastOp' = "resume" => (currentStep' = resumeTimer /\ wizardData' = wizardData)]_vars

\* C9 witness: the resume timer has put a freshly entered wizard on step 3
\* with the company name and the scenario an earlier page had saved.
C9_Witness ==
    /\ lastOp = "resume" /\ currentStep = 3 /\ url.demo = Null
    /\ wizardData["company_name"] = Str("TechStart Pro")
    /\ wizardData["demo_scenario"] # Absent
    /\ localData = JSONStringify(wizardData) /\ localStep = "3"

\* C10 (as claimed): while the results of a successful analysis are on
\* display, the durable store holds neither data nor step.
C10_ClearedAfterSuccess == view = "results" => (localData = NoItem /\ localStep = Null)

\* C11 (as claimed): when a request fails the wizard shows the error pane
\* with Try Again and currentStep is the step runAnalysis was started on; and
\* the durable store holds what it held before runAnalysis was called:
\* neither the call nor the failure changes it.
C11_FailureLeavesSession ==
    [][/\ lastOp' = "failure" =>
            /\ view' = "error"
            /\ currentStep' = failed'[1].from
            /\ UNCHANGED <<localData, localStep>>
       /\ lastOp' = "submit" => UNCHANGED <<localData, localStep>>]_vars

\* C12: a click on Try Again right after a request has failed, with no input
\* changed since the failed invocation built its request body, builds a body
\* equal to the failed one, key for key and value for value.
C12_RetrySameBody ==
    [][(lastOp = "failure" /\ lastOp' = "submit" /\ RetryShown /\ ~failed[1].edited) =>
          runs'[Len(runs')].body = failed[1].body]_vars

\* C12 witness: Try Again was clicked on step 4 right after a failure, and
\* the new invocation carries the body of the failed one, with the company
\* name the session had resumed.
C12_Witness ==
    /\ lastOp = "submit" /\ failed # <<>> /\ runs # <<>>
    /\ runs[Len(runs)].from = 4
    /\ runs[Len(runs)].body = failed[1].body
    /\ failed[1].body.data["company_name"] = Str("Acme")

\* C13: every runAnalysis() builds one request body: the keys of data, with
\* persona set to the selected persona, use_demo true exactly when data holds
\* a demo scenario, and demo_type there exactly when use_demo is true and then
\* equal to persona; the invocation has sent nothing yet. Every send is the
\* one request of one invocation that had sent none, with the body it built;
\* an invocation that has sent its request only ends.
C13_OneBodyOneRequest ==
    [][/\ lastOp' = "submit" =>
            /\ Len(runs') = Len(runs) + 1
            /\ \A i \in 1..Len(runs) : runs'[i] = runs[i]
            /\ LET r == runs'[Len(runs')]
               IN /\ r.pc = "steps"
                  /\ \A k \in Keys \ {"persona"} : r.body.data[k] = wizardData'[k]
                  /\ r.body.persona = selectedPersona'
                  /\ r.body.use_demo = (wizardData'["demo_scenario"] # Absent)
                  /\ r.body.demo_type = (IF r.body.use_demo THEN r.body.persona ELSE Missing)
       /\ lastOp' = "send" =>
            /\ Len(runs') = Len(runs)
            /\ \E i \in 1..Len(runs) :
                  /\ runs[i].pc = "steps" /\ runs'[i].pc = "fetch"
                  /\ runs'[i].body = runs[i].body
                  /\ \A j \in 1..Len(runs) \ {i} : runs'[j] = runs[j]
       /\ lastOp' \notin {"submit", "send", "load", "restart"} =>
            \A i \in 1..Len(runs') :
                \E j \in 1..Len(runs) : runs'[i].pc = runs[j].pc /\ runs'[i].body = runs[j].body]_vars

\* C13 witness: the request of an invocation started on a demo session has
\* been sent, with use_demo true and demo_type the persona of the entry.
C13_Witness ==
    /\ lastOp = "send"
    /\ \E i \in 1..Len(runs) :
          /\ runs[i].pc = "fetch"
          /\ runs[i].body.use_demo
          /\ runs[i].body.demo_type = "entrepreneur"
          /\ runs[i].body.data["company_name"] = Str("TechStart Pro")

\* the three fields a scenario record fills
ScenarioFields == {"company_name", "industry", "ai_description"}

\* C14 (as claimed): applying a demo scenario writes company_name, industry
\* and ai_description only where the current value is empty: a field of data
\* that holds a value keeps it when the scenario is applied, and an input of
\* the form that holds a value keeps it when a step is auto-filled.
C14_PrefillAdditive ==
    [][/\ lastOp' = "urlTimer" =>
            \A k \in ScenarioFields : Truthy(wizardData[k]) => wizardData'[k] = wizardData[k]
       /\ lastOp' \in {"next", "autoAdvance"} =>
            \A fld \in AllTextFields : form.text[fld] # "" => form'.text[fld] = form.text[fld]]_vars

\* the sessionStorage items the picker can leave
ScenarioItems == {Obj(sc) : sc \in Scenarios}

\* C15: applying a scenario record to data that has already received it
\* gives the same data, for the data of every reachable state and every
\* record; and the auto-advance that comes with an application makes no step
\* transition once the wizard has left step 1, so a second application adds
\* none to the one of the first.
C15_PrefillIdempotent ==
    [][/\ (wizardData' # wizardData \/ lastOp = "load") =>
            \A d \in {wizardData, wizardData'}, ss \in ScenarioItems :
                loadDemoScenario(loadDemoScenario(d, ss), ss) = loadDemoScenario(d, ss)
       /\ (lastOp' = "urlTimer" /\ url.demo # Null) =>
            loadDemoScenario(wizardData', sessionScenario) = wizardData'
       /\ (lastOp' = "autoAdvance" /\ currentStep # 1) =>
            UNCHANGED <<currentStep, wizardData, form, localData, localStep>>]_vars

\* C15 witness: a demo entry has applied the scenario to data that an
\* earlier page had saved with the same scenario already applied.
C15_Witness ==
    /\ lastOp = "urlTimer" /\ url.demo # Null /\ sessionScenario # NoScenario
    /\ localData.kind = "json" /\ localData.obj["demo_scenario"] = sessionScenario
    /\ wizardData["demo_scenario"] = sessionScenario
    /\ wizardData["company_name"] = Str("TechStart Pro")

\* C16 (as claimed): the read of the handoff record by a demo entry deletes
\* it: once loadDemoScenario() has read sessionStorage, the scenario and the
\* persona of the handoff are gone from it.
C16_HandoffConsumed ==
    [][(lastOp' = "urlTimer" /\ url.demo # Null /\ sessionScenario # NoScenario) =>
          (sessionScenario' = NoScenario /\ sessionPersona' = Null)]_vars

\* C17: on a demo entry whose handoff record the prefill accepts, the 500 ms
\* timer selects the persona of the entry and arms the auto-advance; the
\* auto-advance calls nextStep() only while currentStep = 1, and then moves
\* the wizard to step 2; whatever the user clicks in between, a page sees at
\* most one automatic nextStep(), and nothing but the auto-advance counts as
\* one.
C17_AutoAdvanceOnce ==
    [][/\ autoNexts' <= 1
       /\ (/\ lastOp' = "urlTimer" /\ url.demo # Null
           /\ sessionScenario # NoScenario
           /\ ~PrefillThrows(ObjScenario(sessionScenario))) =>
            (selectedPersona' = url.persona /\ advanceTimer')
       /\ lastOp' = "autoAdvance" =>
            IF currentStep = 1
            THEN currentStep' = 2 /\ autoNexts = 0 /\ autoNexts' = 1
            ELSE UNCHANGED <<currentStep, wizardData, form, autoNexts>>
       /\ autoNexts' # autoNexts => lastOp' \in {"autoAdvance", "load", "restart"}]_vars

\* C17 witness: after a demo entry the auto-advance has moved the wizard
\* from step 1 to step 2, once, with the persona of the entry selected and
\* the company name of the record in the form.
C17_Witness ==
    /\ lastOp = "autoAdvance" /\ autoNexts = 1 /\ currentStep = 2
    /\ url.demo # Null /\ selectedPersona = "entrepreneur"
    /\ form.text["company_name"] = "TechStart Pro"

\* C18 (as claimed): a page load that finds unparseable data in the durable
\* store starts the default empty session (currentStep 1 with no jump
\* pending, data empty and no persona unless the entry parameters name one)
\* and removes the damaged record from the store.
C18_CorruptDiscarded ==
    [][(lastOp' = "load" /\ localData.kind = "bad") =>
          /\ currentStep' = 1 /\ resumeTimer' = 0
          /\ url'.persona = Null => (wizardData' = EmptyData /\ selectedPersona' = Null)
          /\ localData' = NoItem /\ localStep' = Null]_vars

\* the properties a scenario record has, as the fields of data they fill
PresentFields(sc) ==
    {k \in ScenarioFields :
        \/ k = "company_name" /\ sc.name # Missing
        \/ k = "industry" /\ sc.industry # Missing
        \/ k = "ai_description" /\ sc.ai_system # Missing}

\* what the record holds for a field of data
RecordValue(sc, k) ==
    CASE k = "company_name" -> Str(sc.name)
      [] k = "industry" -> Str(ToLowerCase(sc.industry))
      [] OTHER -> Str(sc.ai_system)

\* C19 (as claimed): a demo entry with an incomplete handoff record prefills
\* every field the record has and skips the others: data gets the value of
\* each property that is there and no value (it keeps what it had, or holds
\* undefined) for one that is not, and an auto-filled input never receives
\* text the record does not hold.
C19_PrefillSkipsMissing ==
    [][/\ (lastOp' = "urlTimer" /\ url.demo # Null /\ sessionScenario # NoScenario) =>
            LET sc == ObjScenario(sessionScenario)
            IN \A k \in ScenarioFields :
                  IF k \in PresentFields(sc)
                  THEN wizardData'[k] = RecordValue(sc, k)
                  ELSE wizardData'[k] \in {wizardData[k], Undef}
       /\ lastOp' \in {"next", "autoAdvance"} =>
            \A fld \in AllTextFields : form'.text[fld] # "undefined"]_vars

\* C20 (as claimed): after Start New Assessment currentStep is 1, data is
\* empty, no persona is selected, and the durable items and the handoff
\* items are gone from the two stores.
C20_RestartResets ==
    [][lastOp' = "restart" =>
          /\ currentStep' = 1
          /\ wizardData' = EmptyData
          /\ selectedPersona' = Null
          /\ localData' = NoItem /\ localStep' = Null
          /\ sessionScenario' = NoScenario /\ sessionPersona' = Null]_vars

\* C21 (as claimed): in every reachable state the selected persona, and the
\* persona entry of data, is unset or one of entrepreneur, consultant, seller.
C21_PersonaOfTheThree ==
    /\ selectedPersona \in Personas \cup {Null}
    /\ wizardData["persona"] \in {Str(p) : p \in Personas} \cup {Absent}

\* the staged sequence of invocation r is in progress
StagedRunning(r) == r.pc = "steps"

\* the request of invocation r has been issued
RequestIssued(r) == r.pc = "fetch"

\* C22 (as claimed): the staged sequence does not gate the request: while
\* the staged sequence of an invocation is in progress its request has been
\* issued; and results are on display only through a response, which comes
\* after both.
C22_StagedDoesNotGate ==
    [][/\ \A i \in 1..Len(runs') : StagedRunning(runs'[i]) => RequestIssued(runs'[i])
       /\ (view' = "results" /\ view # "results") => lastOp' = "success"]_vars

\* C23 (as claimed): at most one runAnalysis() invocation is in progress at
\* any time, and so at most one request is outstanding.
C23_OneSubmission ==
    /\ Len(runs) <= 1
    /\ Cardinality({i \in 1..Len(runs) : RequestIssued(runs[i])}) <= 1

\* C24: Start New Assessment leaves no deferred task of the page it reloads:
\* right after it no resume jump, no auto-advance and no runAnalysis
\* invocation is pending, the only one-shot timer is the one the reloaded page
\* arms for a persona parameter, and the step that follows it is none of a
\* resume jump, an auto-advance, a request or a response.
C24_RestartDropsTasks ==
    [][/\ lastOp' = "restart" =>
            /\ resumeTimer' = 0 /\ ~advanceTimer' /\ runs' = <<>>
            /\ urlTimer' = (url'.persona # Null)
       /\ lastOp = "restart" =>
            lastOp' \notin {"resume", "autoAdvance", "send", "success", "failure"}]_vars

\* C24 witness: Start New Assessment was called on a demo page whose
\* auto-advance was pending, and the reloaded page is on step 1 with no
\* auto-advance pending.
C24_Witness ==
    /\ lastOp = "restart" /\ "autoAdvance" \in dropped
    /\ currentStep = 1 /\ ~advanceTimer /\ resumeTimer = 0 /\ runs = <<>>

\* step 2 or 3 is valid as the claim words it: every required text input is
\* non-empty after trimming, and a required checkbox group has a box checked
ValidAsClaimed(step) ==
    /\ \A fld \in RequiredFields(step) : Trim(form.text[fld]) # ""
    /\ RequiredBoxes(step) # {} => form.boxes # {}

\* C25 (as claimed): a click on Next on step 2 or 3 advances exactly when
\* every required text input is non-empty after trimming and every required
\* checkbox group has a box checked.
C25_ValidationIff ==
    [][(lastOp' = "next" /\ currentStep \in {2, 3}) =>
          ((currentStep' = currentStep + 1) <=> ValidAsClaimed(currentStep))]_vars

\* what the form of the step on display holds for key k of data: the text of
\* the input, or the checked values of the group in document order
FormValue(k) ==
    IF k \in AllTextFields
    THEN Str(form.text[k])
    ELSE List(SelectSeq(BoxOrder, LAMBDA b : b \in form.boxes))

\* C26: a step that collects (a click on Next, the auto-advance, a
\* runAnalysis) changes only keys of the inputs of the step on display, and
\* every key it changes holds the current value of its input afterwards; when
\* the step has a form and is collected, each of its text inputs is written,
\* whatever data held for it; the keys of the other steps, persona and
\* demo_scenario keep their values.
C26_CollectFrame ==
    [][lastOp' \in {"next", "autoAdvance", "submit"} =>
          /\ \A k \in Keys :
                wizardData'[k] # wizardData[k] =>
                    /\ k \in TextFields(currentStep) \cup BoxFields(currentStep)
                    /\ wizardData'[k] = FormValue(k)
          /\ (lastOp' = "submit" \/ currentStep' = currentStep + 1) =>
                \A k \in TextFields(currentStep) : wizardData'[k] = FormValue(k)]_vars

\* C26 witness: runAnalysis on a resumed step 3 has overwritten the stored
\* description with the (empty) input of the form and has kept the persona
\* and what step 2 had collected.
C26_Witness ==
    /\ lastOp = "submit" /\ runs # <<>> /\ runs[Len(runs)].from = 3
    /\ wizardData["ai_description"] = Str("") /\ form.text["ai_description"] = ""
    /\ wizardData["company_name"] = Str("Acme")
    /\ wizardData["persona"] = Str("consultant")

\* a request body names a persona and holds a non-blank value for every
\* required field of steps 2 and 3
BodyComplete(b) ==
    /\ b.persona # Null
    /\ \A k \in AllTextFields :
          /\ Len(b.data[k]) = 2 /\ b.data[k][1] = "str"
          /\ b.data[k][2] \notin {"", " "}

\* C27 (as claimed): a request is sent only with a persona set and every
\* required field of steps 2 and 3 filled.
C27_SubmitValidated ==
    [][lastOp' = "send" =>
          \A i \in 1..Len(runs') :
              (runs[i].pc = "steps" /\ runs'[i].pc = "fetch") => BodyComplete(runs'[i].body)]_vars

\* C28 (as claimed): a successful response that arrives while currentStep is
\* not 4 neither puts the results on display nor clears the two stores.
C28_ResultsOnlyOnStep4 ==
    [][(lastOp' = "success" /\ currentStep # 4) =>
          /\ view' # "results"
          /\ UNCHANGED <<localData, localStep, sessionScenario, sessionPersona>>]_vars

\* the keys of data a demo entry fills: persona, the three fields of the
\* scenario record and the record itself
DemoKeys == {"persona", "demo_scenario"} \cup ScenarioFields

\* C29 (as claimed): once a demo entry has applied a handoff record the
\* prefill accepts, data holds persona, the scenario's fields and the record,
\* and nothing an earlier session had stored.
C29_DemoIgnoresStored ==
    [][(/\ lastOp' = "urlTimer" /\ url.demo # Null
        /\ sessionScenario # NoScenario
        /\ ~PrefillThrows(ObjScenario(sessionScenario))) =>
          \A k \in Keys \ DemoKeys : wizardData'[k] = Absent]_vars

\* C30 (as claimed): after the form of step 3 has been collected, data holds
\* for the checkbox group the list of the boxes checked at that moment, in
\* document order; with no box checked it holds no selection of an earlier
\* collect.
C30_GroupReflectsForm ==
    [][(currentStep = 3 /\ (lastOp' = "submit" \/ (lastOp' = "next" /\ currentStep' = 4))) =>
          \A k \in BoxFields(3) :
              IF form.boxes # {}
              THEN wizardData'[k] = List(SelectSeq(BoxOrder, LAMBDA b : b \in form.boxes))
              ELSE wizardData'[k] \in {Absent, List(<<>>)}]_vars

====
